---- MODULE Spec2Model ----
(***************************************************************************)
(* Model of stanza/utils/datasets/prepare_tokenizer_treebank.py.           *)
(*                                                                         *)
(* A file is the sequence of its characters; NL is the newline character.  *)
(* Three specifications share the variables:                               *)
(*   SpecRoundTrip  read_sentences_from_conllu / write_sentences_to_conllu *)
(*   SpecMwt        strip_mwt_from_conll                                   *)
(*   Spec           process_treebank and everything it calls               *)
(***************************************************************************)
EXTENDS Integers, Sequences, FiniteSets, Bags, TLC

VARIABLES
    pc,          \* position of the program
    infile,      \* content of the input annotation file (the train .conllu)
    outfile,     \* content of the file written by the operation under study
    sents,       \* local variable sents (list of sentences, each a list of lines)
    sents2,      \* result of reading outfile again
    devFound,    \* common.find_treebank_dataset_file(.., "dev", "txt") is truthy
    trainFound,  \* common.find_treebank_dataset_file(.., "train", "txt") is truthy
    short_name,  \* treebank_to_short_name(treebank)
    dir,         \* the directory tokenizer_dir exists
    conllu,      \* tokenizer_dir/{short_name}.{dataset}.gold.conllu : content or NoFile
    txt,         \* tokenizer_dir/{short_name}.{dataset}.txt : how it was produced
    labels,      \* tokenizer_dir/{short_name}-ud-{dataset}.toklabels : how produced
    rng,         \* state of the process-wide generator of module random
    log,         \* steps executed by the current process_treebank call, in order
    exc,         \* exception that ended the run, or "none"
    run,         \* number of the process_treebank call within the batch
    prev,        \* what the previous successful split_train_file of the batch wrote
    dataset,     \* argument dataset of the running prepare_ud_dataset
    start        \* the working directory as it was when process_treebank was called

vars == <<pc, infile, outfile, sents, sents2, devFound, trainFound, short_name,
          dir, conllu, txt, labels, rng, log, exc, run, prev, dataset, start>>

ioVars == <<infile, outfile, sents, sents2>>
tbVars == <<devFound, trainFound, short_name, dir, conllu, txt, labels, rng,
            log, exc, run, prev, dataset, start>>

----------------------------------------------------------------------------
(* Bounds                                                                  *)

MaxFileLen == 8      \* characters of an input file in SpecRoundTrip
MaxMwtFileLen == 7   \* characters of an input file in SpecMwt
MaxSents == 10       \* sentences of a train file in Spec
MaxRuns == 2         \* process_treebank calls of one batch in Spec
RngModulus == 8      \* number of states of the model of the random generator

----------------------------------------------------------------------------
(* Characters and lines                                                    *)

NL == "\n"
SP == " "
\* The content of a file that does not exist (no file holds this sequence).
NoFile == <<"NoFile">>

IsSpace(c) == c \in {SP, NL}
IsDigit(c) == c \in {"0", "1", "2", "3", "4", "5", "6", "7", "8", "9"}

\* The sequences over S of length at most n.
SeqsUpTo(S, n) == UNION {[1..k -> S] : k \in 0..n}

\* "for line in infile": the lines of a file, each with its terminating
\* newline; a last line without newline is a line too.
\* LineEnd: the position where the line that begins at position s ends.
LineEnd(f, s) ==
    IF \E i \in s..Len(f) : f[i] = NL
    THEN CHOOSE i \in s..Len(f) : f[i] = NL /\ \A k \in s..(i - 1) : f[k] # NL
    ELSE Len(f)

RECURSIVE LinesFrom(_, _, _)
LinesFrom(f, s, acc) ==
    IF s > Len(f)
    THEN acc
    ELSE LinesFrom(f, LineEnd(f, s) + 1, Append(acc, SubSeq(f, s, LineEnd(f, s))))

FileLines(f) == LinesFrom(f, 1, <<>>)

\* str.strip(): leading and trailing whitespace removed.
RECURSIVE LStrip(_)
LStrip(s) == IF Len(s) > 0 /\ IsSpace(s[1]) THEN LStrip(Tail(s)) ELSE s

RECURSIVE RStrip(_)
RStrip(s) ==
    IF Len(s) > 0 /\ IsSpace(s[Len(s)])
    THEN RStrip(SubSeq(s, 1, Len(s) - 1))
    ELSE s

Strip(s) == RStrip(LStrip(s))

\* The concatenation of a sequence of sequences.
RECURSIVE Concat(_)
Concat(ss) == IF ss = <<>> THEN <<>> ELSE Head(ss) \o Concat(Tail(ss))

----------------------------------------------------------------------------
(* read_sentences_from_conllu                                              *)

\* Faulty variant of EndOfFile: the sentence still in the cache at end of file is lost.
EndOfFileNoFlush(ss, cache) == ss

\* After the loop: "if len(cache) > 0: sents += [cache]".
EndOfFile(ss, cache) == IF Len(cache) > 0 THEN Append(ss, cache) ELSE ss

\* The loop over the lines of the file.
RECURSIVE ReadLoop(_, _, _, _)
ReadLoop(lines, i, ss, cache) ==
    IF i > Len(lines)
    THEN EndOfFile(ss, cache)
    ELSE LET line == Strip(lines[i]) IN
         IF Len(line) = 0
         THEN IF Len(cache) > 0
              THEN ReadLoop(lines, i + 1, Append(ss, cache), <<>>)
              ELSE ReadLoop(lines, i + 1, ss, cache)
         ELSE ReadLoop(lines, i + 1, ss, Append(cache, line))

read_sentences_from_conllu(f) == ReadLoop(FileLines(f), 1, <<>>, <<>>)

----------------------------------------------------------------------------
(* write_sentences_to_conllu                                               *)

\* Faulty variant of SentenceBlock: no blank line after the sentence.
SentenceBlockNoSeparator(lines) == Concat([i \in 1..Len(lines) |-> Append(lines[i], NL)])

\* One sentence: print(line) for each line, then print("").
SentenceBlock(lines) ==
    Concat([i \in 1..Len(lines) |-> Append(lines[i], NL)]) \o <<NL>>

write_sentences_to_conllu(ss) == Concat([i \in 1..Len(ss) |-> SentenceBlock(ss[i])])

----------------------------------------------------------------------------
(* strip_mwt_from_conll                                                    *)

\* Number of consecutive digits of s from position i on.
RECURSIVE DigitRun(_, _)
DigitRun(s, i) ==
    IF i <= Len(s) /\ IsDigit(s[i]) THEN 1 + DigitRun(s, i + 1) ELSE 0

\* Faulty variant of MWT_RE_match: the pattern lacks the digits after the dash.
MWT_RE_match_NoSecondNumber(s) ==
    LET d1 == DigitRun(s, 1) IN
    /\ d1 >= 1
    /\ d1 + 1 <= Len(s)
    /\ s[d1 + 1] = "-"

\* MWT_RE.match(line) with MWT_RE = "^[0-9]+[-][0-9]+".
MWT_RE_match(s) ==
    LET d1 == DigitRun(s, 1) IN
    /\ d1 >= 1
    /\ d1 + 1 <= Len(s)
    /\ s[d1 + 1] = "-"
    /\ DigitRun(s, d1 + 2) >= 1

\* "for line in fin: if not MWT_RE.match(line): fout.write(line)".
RECURSIVE StripLoop(_, _, _)
StripLoop(lines, i, out) ==
    IF i > Len(lines)
    THEN out
    ELSE IF MWT_RE_match(lines[i])
         THEN StripLoop(lines, i + 1, out)
         ELSE StripLoop(lines, i + 1, out \o lines[i])

strip_mwt_from_conll(f) == StripLoop(FileLines(f), 1, <<>>)

----------------------------------------------------------------------------
(* Values the treebank variables hold while a file operation is studied.   *)

Datasets == {"train", "dev", "test"}

TbIdle ==
    /\ devFound = FALSE
    /\ trainFound = TRUE
    /\ short_name = "other"
    /\ dir = TRUE
    /\ conllu = [d \in Datasets |-> NoFile]
    /\ txt = [d \in Datasets |-> "absent"]
    /\ labels = [d \in Datasets |-> "absent"]
    /\ rng = 0
    /\ log = <<>>
    /\ exc = "none"
    /\ run = 0
    /\ prev = [set |-> FALSE, train |-> NoFile, dev |-> NoFile]
    /\ dataset = "none"
    /\ start = [dir |-> TRUE, conllu |-> conllu, txt |-> txt, labels |-> labels]

----------------------------------------------------------------------------
(* SpecRoundTrip: read a file, write the sentences, read the result again. *)

RoundTripChars == {SP, "a", NL}

InitRoundTrip ==
    /\ pc = "rt_start"
    /\ infile \in SeqsUpTo(RoundTripChars, MaxFileLen)
    /\ outfile = NoFile
    /\ sents = <<>>
    /\ sents2 = <<>>
    /\ TbIdle

ReadSentences ==
    /\ pc = "rt_start"
    /\ sents' = read_sentences_from_conllu(infile)
    /\ pc' = "rt_read"
    /\ UNCHANGED <<infile, outfile, sents2>>
    /\ UNCHANGED tbVars

WriteSentences ==
    /\ pc = "rt_read"
    /\ outfile' = write_sentences_to_conllu(sents)
    /\ pc' = "rt_written"
    /\ UNCHANGED <<infile, sents, sents2>>
    /\ UNCHANGED tbVars

ReadAgain ==
    /\ pc = "rt_written"
    /\ sents2' = read_sentences_from_conllu(outfile)
    /\ pc' = "rt_reread"
    /\ UNCHANGED <<infile, outfile, sents>>
    /\ UNCHANGED tbVars

NextRoundTrip == ReadSentences \/ WriteSentences \/ ReadAgain

SpecRoundTrip == InitRoundTrip /\ [][NextRoundTrip]_vars

----------------------------------------------------------------------------
(* SpecMwt: strip_mwt_from_conll(input_conllu, output_conllu).             *)

MwtChars == {"1", "-", "a", NL}

InitMwt ==
    /\ pc = "mwt_start"
    /\ infile \in SeqsUpTo(MwtChars, MaxMwtFileLen)
    /\ outfile = NoFile
    /\ sents = <<>>
    /\ sents2 = <<>>
    /\ TbIdle

StripMwt ==
    /\ pc = "mwt_start"
    /\ outfile' = strip_mwt_from_conll(infile)
    /\ pc' = "mwt_done"
    /\ UNCHANGED <<infile, sents, sents2>>
    /\ UNCHANGED tbVars

NextMwt == StripMwt

SpecMwt == InitMwt /\ [][NextMwt]_vars

----------------------------------------------------------------------------
(* Properties of the reader and the writer                                 *)

\* A file without the newlines at its end.
RECURSIVE TrimEnd(_)
TrimEnd(f) ==
    IF Len(f) > 0 /\ f[Len(f)] = NL THEN TrimEnd(SubSeq(f, 1, Len(f) - 1)) ELSE f

\* A line without its terminating newline.
Body(l) == IF Len(l) > 0 /\ l[Len(l)] = NL THEN SubSeq(l, 1, Len(l) - 1) ELSE l

\* No line of f has whitespace at its start or its end.
NoEdgeSpace(f) ==
    \A i \in 1..Len(FileLines(f)) :
        LET b == Body(FileLines(f)[i]) IN
        b = <<>> \/ (~IsSpace(b[1]) /\ ~IsSpace(b[Len(b)]))

\* f does not begin with a blank line and has no two blank lines in a row
\* before the blank lines at its end.
SingleSeparators(f) ==
    LET t == TrimEnd(f) IN
    /\ (Len(t) > 0 => t[1] # NL)
    /\ \A i \in 1..Len(t) : ~(i + 2 <= Len(t) /\ t[i] = NL /\ t[i + 1] = NL /\ t[i + 2] = NL)

CleanFile(f) == NoEdgeSpace(f) /\ SingleSeparators(f)

\* C5 as stated: for ANY annotation file, write(read(file)) is the file, up to
\* the blank lines at the end of the file.
C5_RoundTripAnyFile ==
    pc \in {"rt_written", "rt_reread"} => TrimEnd(outfile) = TrimEnd(infile)

\* C5 amended: for any annotation file whose lines have no leading or trailing
\* whitespace, that does not begin with a blank line and has no run of two or
\* more blank lines between sentences, write(read(file)) is the file, up to
\* the blank lines at the end of the file.
C5_RoundTripCleanFile ==
    (pc \in {"rt_written", "rt_reread"} /\ CleanFile(infile))
        => TrimEnd(outfile) = TrimEnd(infile)

\* A clean file of at least two sentences has been read and written back.
C5_Witness ==
    /\ pc = "rt_written"
    /\ CleanFile(infile)
    /\ Len(sents) >= 2
    /\ \E i \in 1..Len(sents) : Len(sents[i]) >= 2

\* C6: read, write, read again yields the sentence sequence of the first read,
\* and every sentence is a non-empty sequence of non-empty lines.
C6_ReadWriteRead ==
    pc = "rt_reread" =>
        /\ sents2 = sents
        /\ \A i \in 1..Len(sents2) :
              /\ Len(sents2[i]) > 0
              /\ \A j \in 1..Len(sents2[i]) : Len(sents2[i][j]) > 0

\* A file that is not clean, with at least two sentences, went through
\* read, write and read.
C6_Witness ==
    /\ pc = "rt_reread"
    /\ ~CleanFile(infile)
    /\ Len(sents) >= 2
    /\ outfile # infile

----------------------------------------------------------------------------
(* Properties of strip_mwt_from_conll                                      *)

\* The line starts with digits, a dash, digits.
StartsWithMwt(l) ==
    \E i \in 1..Len(l) : \E j \in 1..Len(l) :
        /\ i + 2 <= j
        /\ \A k \in 1..i : IsDigit(l[k])
        /\ l[i + 1] = "-"
        /\ \A k \in (i + 2)..j : IsDigit(l[k])

NotMwtLine(l) == ~StartsWithMwt(l)

\* C7: the output has no line that starts with digits-dash-digits, and it is
\* the input's lines that do not start so, unchanged and in the input's order.
C7_StripMwt ==
    pc = "mwt_done" =>
        /\ \A i \in 1..Len(FileLines(outfile)) : ~StartsWithMwt(FileLines(outfile)[i])
        /\ outfile = Concat(SelectSeq(FileLines(infile), NotMwtLine))

\* A file with a multi-word-token row between two other rows was stripped.
C7_Witness ==
    /\ pc = "mwt_done"
    /\ Len(FileLines(infile)) >= 3
    /\ StartsWithMwt(FileLines(infile)[2])
    /\ ~StartsWithMwt(FileLines(infile)[1])
    /\ ~StartsWithMwt(FileLines(infile)[3])

----------------------------------------------------------------------------
(* Module random, as far as split_train_file uses it.  The generator is    *)
(* modelled as a linear congruential generator with RngModulus states.     *)

SEED == 1234

RngStates == 0..(RngModulus - 1)

\* Faulty variant of RandomSeed: the generator is left in the state it was in.
RandomSeedIgnored(r, a) == r

\* random.seed(a): the state after it depends on a alone, not on the state r before.
RandomSeed(r, a) == a % RngModulus

RngNext(r) == (5 * r + 3) % RngModulus

\* random.shuffle(x): "for i in reversed(range(1, len(x))): j = randbelow(i + 1);
\* x[i], x[j] = x[j], x[i]".  The result is <<shuffled x, state of the generator>>.
RECURSIVE ShuffleFrom(_, _, _)
ShuffleFrom(x, i, r) ==
    IF i < 2
    THEN <<x, r>>
    ELSE LET r1 == RngNext(r)
             j == (r1 % i) + 1
             y == [x EXCEPT ![i] = x[j], ![j] = x[i]]
         IN ShuffleFrom(y, i - 1, r1)

RandomShuffle(x, r) == ShuffleFrom(x, Len(x), r)

----------------------------------------------------------------------------
(* split_train_file: the computation before the files are written          *)

XV_RATIO_TENTHS == 2

\* Faulty variant of n_dev: the count is rounded up.
n_dev_RoundedUp(n) == (n * XV_RATIO_TENTHS + 9) \div 10

\* int(len(sents) * XV_RATIO), XV_RATIO = 0.2.  The double nearest to 0.2 is
\* above 0.2 and n * 0.2 rounds to no value below floor(n / 5) or at
\* floor(n / 5) + 1 for the n of a file, so the result is floor(2n / 10).
n_dev(n) == (n * XV_RATIO_TENTHS) \div 10

\* Faulty variant of AssertPasses: the check is gone.
AssertAlwaysPasses(n) == TRUE

\* assert n_dev >= 1, "Dev sentence number less than one."
AssertPasses(n) == n >= 1

\* Faulty variant of train_sents: the slice starts one sentence late.
train_sents_OffByOne(ss, n) == SubSeq(ss, n + 2, Len(ss))

\* dev_sents = sents[:n_dev] and train_sents = sents[n_dev:]
dev_sents(ss, n) == SubSeq(ss, 1, n)
train_sents(ss, n) == SubSeq(ss, n + 1, Len(ss))

----------------------------------------------------------------------------
(* The treebank and the working directory                                  *)

ShortNames == {"sl_ssj", "en_ewt", "vi_vtb", "gl_treegal"}

\* short_language = short_name.split("_")[0]
short_language(name) ==
    CASE name = "sl_ssj" -> "sl"
      [] name = "en_ewt" -> "en"
      [] name = "vi_vtb" -> "vi"
      [] OTHER -> "gl"

\* Sentence number j of a generated train file: a row with the decimal digits
\* of j and a row "a".
DigitChar(d) == <<"0", "1", "2", "3", "4", "5", "6", "7", "8", "9">>[d + 1]

SentenceRows(j) ==
    <<IF j < 10 THEN <<DigitChar(j)>> ELSE <<DigitChar(j \div 10), DigitChar(j % 10)>>,
      <<"a">>>>

\* The text of a sentence: canonical, or with spaces around the rows and an
\* extra blank line.
SentenceText(j, messy) ==
    IF messy
    THEN <<SP>> \o SentenceRows(j)[1] \o <<NL>> \o SentenceRows(j)[2] \o <<SP, NL, NL, SP, NL>>
    ELSE SentenceRows(j)[1] \o <<NL>> \o SentenceRows(j)[2] \o <<NL, NL>>

\* A train file of n sentences that repeat with period k.
TrainFile(n, k, messy) ==
    Concat([i \in 1..n |-> SentenceText(((i - 1) % k) + 1, messy)])

\* All sentences alike, all sentences different, or two sentences in turn with
\* untidy spacing.
TrainFiles ==
    {TrainFile(n, k, FALSE) : n \in 0..MaxSents, k \in {1, MaxSents + 1}}
        \cup {TrainFile(n, 2, TRUE) : n \in 0..MaxSents}

\* The dev and test annotation files of the treebank.
DevSource == <<"1", NL, NL>>
TestSource == <<"1", "-", "2", NL, "1", NL, "2", NL, NL>>

Source(ds) ==
    CASE ds = "train" -> infile
      [] ds = "dev" -> DevSource
      [] OTHER -> TestSource

\* Files left in the working directory by an earlier run of the program.
StaleFile == <<"a", NL, NL>>
SsjFile == <<"ssj">>

WorkDir == [dir |-> dir, conllu |-> conllu, txt |-> txt, labels |-> labels]

\* One step of the run, with whether the working directory existed when the
\* step began and whether the step succeeded.
Ev(op, ds, ok) == [op |-> op, ds |-> ds, dir |-> dir, ok |-> ok]

InitTreebank ==
    /\ pc = "start"
    /\ infile \in TrainFiles
    /\ outfile = NoFile
    /\ sents = <<>>
    /\ sents2 = <<>>
    /\ devFound = FALSE
    /\ trainFound = FALSE
    /\ short_name \in ShortNames
    /\ \E d \in {"absent", "empty", "stale"} :
          /\ dir = (d # "absent")
          /\ conllu = [ds \in Datasets |-> IF d = "stale" THEN StaleFile ELSE NoFile]
          /\ txt = [ds \in Datasets |-> IF d = "stale" THEN "stale" ELSE "absent"]
          /\ labels = [ds \in Datasets |-> IF d = "stale" THEN "stale" ELSE "absent"]
    /\ rng \in RngStates
    /\ log = <<>>
    /\ exc = "none"
    /\ run = 1
    /\ prev = [set |-> FALSE, train |-> NoFile, dev |-> NoFile]
    /\ dataset = "none"
    /\ start = [dir |-> dir, conllu |-> conllu, txt |-> txt, labels |-> labels]

----------------------------------------------------------------------------
(* process_treebank                                                        *)

Raise(e) == pc' = "raised" /\ exc' = e

\* "if not common.find_treebank_dataset_file(treebank, udbase_dir, "dev", "txt")"
PartialPath(found) == ~found

\* The body of process_treebank up to the call of one of the two paths.  What
\* find_treebank_dataset_file finds is a fact of the file system.
ProcessTreebank ==
    /\ pc = "start"
    /\ \E tf \in BOOLEAN, df \in BOOLEAN :
          /\ trainFound' = tf
          /\ devFound' = (tf /\ df)
          /\ IF ~tf
             THEN Raise("ValueError") /\ dataset' = dataset
             ELSE IF PartialPath(df)
                  THEN pc' = "split_read" /\ dataset' = dataset /\ exc' = exc
                  ELSE pc' = "makedirs" /\ dataset' = "train" /\ exc' = exc
    /\ UNCHANGED <<short_name, dir, conllu, txt, labels, rng, log, run, prev, start>>
    /\ UNCHANGED ioVars

----------------------------------------------------------------------------
(* split_train_file                                                        *)

\* random.seed(1234), read, shuffle, n_dev and the assertion.
SplitRead ==
    /\ pc = "split_read"
    /\ LET sh == RandomShuffle(read_sentences_from_conllu(infile), RandomSeed(rng, SEED))
           ok == AssertPasses(n_dev(Len(sh[1])))
       IN /\ sents' = sh[1]
          /\ rng' = sh[2]
          /\ log' = Append(log, Ev("split", "train", ok))
          /\ IF ok
             THEN pc' = "split_write_train" /\ exc' = exc
             ELSE Raise("AssertionError")
    /\ UNCHANGED <<infile, outfile, sents2>>
    /\ UNCHANGED <<devFound, trainFound, short_name, dir, conllu, txt, labels,
                   run, prev, dataset, start>>

\* write_sentences_to_conllu(filename, ss) for a file of the working
\* directory: open(filename, 'w') raises when the directory does not exist.
WriteConllu(ds, ss, next) ==
    /\ log' = Append(log, Ev("write_conllu", ds, dir))
    /\ IF dir
       THEN /\ conllu' = [conllu EXCEPT ![ds] = write_sentences_to_conllu(ss)]
            /\ pc' = next
            /\ exc' = exc
       ELSE /\ conllu' = conllu
            /\ Raise("FileNotFoundError")
    /\ UNCHANGED <<devFound, trainFound, short_name, dir, txt, labels, rng,
                   run, prev, dataset, start>>
    /\ UNCHANGED ioVars

SplitWriteTrain ==
    /\ pc = "split_write_train"
    /\ WriteConllu("train", train_sents(sents, n_dev(Len(sents))), "split_write_dev")

SplitWriteDev ==
    /\ pc = "split_write_dev"
    /\ WriteConllu("dev", dev_sents(sents, n_dev(Len(sents))), "split_txt_train")

\* subprocess.check_output("perl conllu_to_text.pl X.conllu > X.txt", shell=True):
\* the shell creates the text file, the script may fail.
ExtractTxt(ds, next, nextds) ==
    \E ok \in BOOLEAN :
        /\ log' = Append(log, Ev("extract_txt", ds, dir /\ ok))
        /\ txt' = [txt EXCEPT ![ds] = IF ~dir THEN @ ELSE IF ok THEN "extracted" ELSE "partial"]
        /\ IF dir /\ ok
           THEN pc' = next /\ dataset' = nextds /\ exc' = exc
           ELSE Raise("CalledProcessError") /\ dataset' = dataset
        /\ UNCHANGED <<devFound, trainFound, short_name, dir, conllu, labels, rng,
                       run, prev, start>>
        /\ UNCHANGED ioVars

SplitTxtTrain ==
    /\ pc = "split_txt_train"
    /\ ExtractTxt("train", "split_txt_dev", dataset)

\* After the second text file split_train_file returns True, and
\* process_partial_ud_treebank goes on to the labels of train.
SplitTxtDev ==
    /\ pc = "split_txt_dev"
    /\ ExtractTxt("dev", "labels", "train")

----------------------------------------------------------------------------
(* prepare_labels                                                          *)

\* Faulty variant of AfterLabels: the synthesized dev split goes through prepare_ud_dataset.
AfterLabelsPrepareDev(partial, ds) ==
    IF ds = "test" THEN <<"returned", "none">>
    ELSE IF ds = "train" THEN <<"makedirs", "dev">>
    ELSE <<"makedirs", "test">>

\* Where the caller of prepare_labels continues: <<pc, dataset>>.
\* process_ud_treebank: prepare_ud_dataset of train, dev, test.
\* process_partial_ud_treebank: prepare_labels of train, prepare_labels of dev,
\* prepare_ud_dataset of test.
AfterLabels(partial, ds) ==
    IF ds = "test" THEN <<"returned", "none">>
    ELSE IF ds = "train" THEN (IF partial THEN <<"labels", "dev">> ELSE <<"makedirs", "dev">>)
    ELSE <<"makedirs", "test">>

\* prepare_tokenizer_data.main([...]) writes the labels of the dataset, or fails.
PrepareLabels ==
    /\ pc = "labels"
    /\ \E ok \in BOOLEAN :
          /\ log' = Append(log, Ev("labels", dataset, ok))
          /\ labels' = [labels EXCEPT ![dataset] = IF ok THEN "toklabels" ELSE "partial"]
          /\ IF ~ok
             THEN Raise("CollaboratorError") /\ dataset' = dataset
             ELSE IF short_language(short_name) = "vi"
                  THEN pc' = "vi_post" /\ dataset' = dataset /\ exc' = exc
                  ELSE /\ pc' = AfterLabels(~devFound, dataset)[1]
                       /\ dataset' = AfterLabels(~devFound, dataset)[2]
                       /\ exc' = exc
    /\ UNCHANGED <<devFound, trainFound, short_name, dir, conllu, txt, rng,
                   run, prev, start>>
    /\ UNCHANGED ioVars

\* postprocess_vietnamese_tokenizer_data.main([...]) writes the .json, or fails.
ViPost ==
    /\ pc = "vi_post"
    /\ \E ok \in BOOLEAN :
          /\ log' = Append(log, Ev("vi_post", dataset, ok))
          /\ labels' = [labels EXCEPT ![dataset] = IF ok THEN "toklabels+json" ELSE "partial"]
          /\ IF ~ok
             THEN Raise("CollaboratorError") /\ dataset' = dataset
             ELSE /\ pc' = AfterLabels(~devFound, dataset)[1]
                  /\ dataset' = AfterLabels(~devFound, dataset)[2]
                  /\ exc' = exc
    /\ UNCHANGED <<devFound, trainFound, short_name, dir, conllu, txt, rng,
                   run, prev, start>>
    /\ UNCHANGED ioVars

----------------------------------------------------------------------------
(* prepare_ud_dataset                                                      *)

\* os.makedirs(tokenizer_dir, exist_ok=True)
MakeDirs ==
    /\ pc = "makedirs"
    /\ log' = Append(log, Ev("makedirs", dataset, TRUE))
    /\ dir' = TRUE
    /\ pc' = "copy"
    /\ UNCHANGED <<devFound, trainFound, short_name, conllu, txt, labels, rng,
                   exc, run, prev, dataset, start>>
    /\ UNCHANGED ioVars

\* short_name == "sl_ssj": preprocess_ssj_data.process writes both copies, or fails.
PreprocessSsj ==
    /\ pc = "copy"
    /\ short_name = "sl_ssj"
    /\ \E ok \in BOOLEAN :
          /\ log' = Append(log, Ev("ssj", dataset, ok))
          /\ conllu' = [conllu EXCEPT ![dataset] = IF ok THEN SsjFile ELSE @]
          /\ txt' = [txt EXCEPT ![dataset] = IF ok THEN "ssj" ELSE "partial"]
          /\ IF ok THEN pc' = "labels" /\ exc' = exc ELSE Raise("CollaboratorError")
    /\ UNCHANGED <<devFound, trainFound, short_name, dir, labels, rng,
                   run, prev, dataset, start>>
    /\ UNCHANGED ioVars

\* short_name == "en_ewt": strip_mwt_from_conll, then shutil.copyfile of the text.
StripMwtCopy ==
    /\ pc = "copy"
    /\ short_name = "en_ewt"
    /\ log' = log \o <<Ev("strip_mwt", dataset, TRUE), Ev("copy_txt", dataset, TRUE)>>
    /\ conllu' = [conllu EXCEPT ![dataset] = strip_mwt_from_conll(Source(dataset))]
    /\ txt' = [txt EXCEPT ![dataset] = "copied"]
    /\ pc' = "labels"
    /\ UNCHANGED <<devFound, trainFound, short_name, dir, labels, rng,
                   exc, run, prev, dataset, start>>
    /\ UNCHANGED ioVars

\* else: shutil.copyfile of the text, then of the annotation file.
CopyPlain ==
    /\ pc = "copy"
    /\ short_name \notin {"sl_ssj", "en_ewt"}
    /\ log' = log \o <<Ev("copy_txt", dataset, TRUE), Ev("copy_conllu", dataset, TRUE)>>
    /\ txt' = [txt EXCEPT ![dataset] = "copied"]
    /\ conllu' = [conllu EXCEPT ![dataset] = Source(dataset)]
    /\ pc' = "labels"
    /\ UNCHANGED <<devFound, trainFound, short_name, dir, labels, rng,
                   exc, run, prev, dataset, start>>
    /\ UNCHANGED ioVars

----------------------------------------------------------------------------
(* common.main: the batch calls process_treebank for one treebank after    *)
(* the other; an exception ends the batch.  Between two calls any number   *)
(* of random draws may have happened.                                      *)

\* split_train_file returned True in the current process_treebank call.
SplitReturned ==
    \E i \in 1..Len(log) : log[i].op = "extract_txt" /\ log[i].ds = "dev" /\ log[i].ok

NextTreebank ==
    /\ pc = "returned"
    /\ run < MaxRuns
    /\ run' = run + 1
    /\ pc' = "start"
    /\ log' = <<>>
    /\ rng' \in RngStates
    /\ prev' = IF SplitReturned
               THEN [set |-> TRUE, train |-> conllu["train"], dev |-> conllu["dev"]]
               ELSE prev
    /\ start' = WorkDir
    /\ devFound' = FALSE
    /\ trainFound' = FALSE
    /\ UNCHANGED <<short_name, dir, conllu, txt, labels, exc, dataset>>
    /\ UNCHANGED ioVars

Next ==
    \/ ProcessTreebank
    \/ SplitRead
    \/ SplitWriteTrain
    \/ SplitWriteDev
    \/ SplitTxtTrain
    \/ SplitTxtDev
    \/ PrepareLabels
    \/ ViPost
    \/ MakeDirs
    \/ PreprocessSsj
    \/ StripMwtCopy
    \/ CopyPlain
    \/ NextTreebank

Spec == InitTreebank /\ [][Next]_vars

----------------------------------------------------------------------------
(* Properties of split_train_file                                          *)

Range(f) == {f[i] : i \in DOMAIN f}

\* The bag of the elements of a sequence, each counted as often as it occurs.
BagOf(q) == [x \in Range(q) |-> Cardinality({i \in DOMAIN q : q[i] = x})]

\* The sentence sequence S of the train input, and what the files hold.
InputSents == read_sentences_from_conllu(infile)
DevWritten == read_sentences_from_conllu(conllu["dev"])
TrainWritten == read_sentences_from_conllu(conllu["train"])

\* The run took the path without dev split and split_train_file is over.
SplitOver == trainFound /\ ~devFound /\ pc \notin {"start", "split_read"}

\* C1: when split_train_file succeeds, the dev and train files it wrote hold a
\* partition of the input's sentences: the sizes add up and each sentence
\* occurs in dev and train together as often as in the input.
C1_SplitCompleteness ==
    SplitReturned =>
        /\ Len(DevWritten) + Len(TrainWritten) = Len(InputSents)
        /\ BagOf(DevWritten \o TrainWritten) = BagOf(InputSents)

\* A split of ten sentences, two kinds in turn, has succeeded.
C1_Witness ==
    /\ SplitReturned
    /\ Len(InputSents) = MaxSents
    /\ Cardinality(Range(InputSents)) = 2

\* C2: a second split of the same input in the same batch writes the dev and
\* train files the first one wrote, whatever state the generator was in
\* before either call.
C2_SplitDeterminism ==
    (SplitReturned /\ prev.set) =>
        /\ conllu["dev"] = prev.dev
        /\ conllu["train"] = prev.train

\* The second split of a batch has succeeded on a file of different sentences
\* that the shuffle reorders.
C2_Witness ==
    /\ SplitReturned
    /\ prev.set
    /\ run = 2
    /\ Cardinality(Range(InputSents)) >= 5
    /\ sents # InputSents

NoLabelOrWriteStep ==
    \A i \in 1..Len(log) : log[i].op = "split"

\* C3: with 0 to 4 sentences in the train input split_train_file fails, the
\* working directory is as it was before the call, and no write and no label
\* generation has run.
C3_MinimumDevNoWrites ==
    (SplitOver /\ Len(InputSents) \div 5 = 0) =>
        /\ pc = "raised"
        /\ exc # "none"
        /\ WorkDir = start
        /\ NoLabelOrWriteStep

\* A split of four sentences has failed in a working directory that held files.
C3_Witness ==
    /\ SplitOver
    /\ Len(InputSents) = 4
    /\ pc = "raised"
    /\ start.conllu["train"] = StaleFile

\* C4 as stated: with a dev count below 1 split_train_file returns a false
\* result and process_partial_ud_treebank returns normally, so that no
\* exception ends the batch.
C4_SkipNotCrash ==
    (SplitOver /\ Len(InputSents) \div 5 = 0) => (pc = "returned" /\ exc = "none")

\* C8: a successful split of n sentences writes the first floor(n / 5)
\* sentences of the shuffled sequence to dev and the others, in shuffled order,
\* to train (2 and 8 for n = 10); the shuffled sequence is a rearrangement of
\* the input's sentences, each with its lines as in the input.
C8_SplitSizes ==
    SplitReturned =>
        LET n == Len(InputSents) IN
        /\ n \div 5 >= 1
        /\ Len(sents) = n
        /\ BagOf(sents) = BagOf(InputSents)
        /\ DevWritten = SubSeq(sents, 1, n \div 5)
        /\ TrainWritten = SubSeq(sents, (n \div 5) + 1, n)
        /\ Len(TrainWritten) = n - (n \div 5)
        /\ (n = 10 => Len(DevWritten) = 2 /\ Len(TrainWritten) = 8)

\* A split of ten different sentences, reordered by the shuffle, has succeeded.
C8_Witness ==
    /\ SplitReturned
    /\ Len(InputSents) = 10
    /\ Cardinality(Range(InputSents)) = 10
    /\ sents # InputSents
    /\ Len(DevWritten) = 2

----------------------------------------------------------------------------
(* Properties of the dispatch                                              *)

\* The steps of the log as <<operation, dataset>>.
Steps == [i \in 1..Len(log) |-> <<log[i].op, log[i].ds>>]

IsPrefix(a, b) == Len(a) <= Len(b) /\ a = SubSeq(b, 1, Len(a))

LabelSteps(name, ds) ==
    IF name = "vi_vtb"
    THEN << <<"labels", ds>>, <<"vi_post", ds>> >>
    ELSE << <<"labels", ds>> >>

\* The per-split preparer: directory, copy or transformation, labels.
PreparerSteps(name, ds) ==
    << <<"makedirs", ds>> >>
    \o (CASE name = "sl_ssj" -> << <<"ssj", ds>> >>
          [] name = "en_ewt" -> << <<"strip_mwt", ds>>, <<"copy_txt", ds>> >>
          [] OTHER -> << <<"copy_txt", ds>>, <<"copy_conllu", ds>> >>)
    \o LabelSteps(name, ds)

WithDevSteps(name) ==
    PreparerSteps(name, "train") \o PreparerSteps(name, "dev") \o PreparerSteps(name, "test")

SplitterSteps ==
    << <<"split", "train">>, <<"write_conllu", "train">>, <<"write_conllu", "dev">>,
       <<"extract_txt", "train">>, <<"extract_txt", "dev">> >>

WithoutDevSteps(name) ==
    SplitterSteps \o LabelSteps(name, "train") \o LabelSteps(name, "dev")
        \o PreparerSteps(name, "test")

ConlluWriters == {"write_conllu", "copy_conllu", "strip_mwt", "ssj"}
TxtWriters == {"extract_txt", "copy_txt", "ssj"}

\* C9: the steps of a process_treebank call are, in order, those of the one
\* path the dev text file selects: with a dev file the preparer for train, dev,
\* test and no splitter; without, the splitter, the labels of train, the labels
\* of dev, the preparer for test, and no preparer step for train or dev.  A
\* call that returns has run all the steps of its path.  The labels of a split
\* are generated after its text and annotation files were written.
C9_DispatchSequence ==
    /\ (pc # "start" /\ ~trainFound) => log = <<>>
    /\ (pc # "start" /\ trainFound) =>
          LET path == IF devFound THEN WithDevSteps(short_name)
                      ELSE WithoutDevSteps(short_name)
          IN /\ IsPrefix(Steps, path)
             /\ pc = "returned" => Steps = path
    /\ devFound => \A i \in 1..Len(log) : log[i].op \notin {"split", "write_conllu", "extract_txt"}
    /\ ~devFound => \A i \in 1..Len(log) :
          log[i].ds \in {"train", "dev"}
              => log[i].op \notin {"makedirs", "ssj", "strip_mwt", "copy_txt", "copy_conllu"}
    /\ \A i \in 1..Len(log) :
          log[i].op = "labels" =>
              /\ \E j \in 1..(i - 1) :
                    log[j].op \in ConlluWriters /\ log[j].ds = log[i].ds /\ log[j].ok
              /\ \E j \in 1..(i - 1) :
                    log[j].op \in TxtWriters /\ log[j].ds = log[i].ds /\ log[j].ok

\* A treebank without dev file whose test split has the multi-word-token rows
\* stripped was processed to the end.
C9_Witness ==
    /\ pc = "returned"
    /\ trainFound
    /\ ~devFound
    /\ short_name = "en_ewt"
    /\ Len(log) = 11

WriteSteps ==
    {"write_conllu", "extract_txt", "labels", "vi_post", "ssj", "strip_mwt",
     "copy_txt", "copy_conllu"}

\* C10 as stated: on both paths, when the working directory does not exist as
\* process_treebank is called, no file is written into it before it is created.
C10_DirectoryBeforeWrite ==
    ~start.dir => \A i \in 1..Len(log) : log[i].op \in WriteSteps => log[i].dir

====
